---- MODULE Spec2Model ----
(***************************************************************************)
(* Kartina: a sphere mesh generator (state/vertex/mod.rs), the per-frame   *)
(* recolouring and surface lifecycle of State (state/mod.rs) and the event *)
(* loop that drives it (main.rs).                                          *)
(*                                                                         *)
(* f32 values are modelled as fixed-point integers with Scale units per    *)
(* 1.0; the three non-finite values +inf, -inf and NaN are encoded as      *)
(* integers outside the range any finite value of the model takes.  Angles *)
(* are integer degrees (PI == 180); the generator only ever uses multiples *)
(* of its 10 degree steps, whose sines are tabulated.                      *)
(***************************************************************************)
EXTENDS Integers, Sequences, FiniteSets, TLC

\* ------------------------------------------------------------------ bounds
MaxRadiusHalves == 4
MaxDim == 1
MaxSwapChains == 2
MaxUpdates == 2

\* --------------------------------------------------------- f32 arithmetic
Scale == 1000
PI == 180

NaN == 2147483647
PosInf == 2147483646
NegInf == -2147483646
IsFinite(a) == a > NegInf /\ a < PosInf

\* integer division rounding toward zero
TruncDiv(a, b) ==
    IF a >= 0
    THEN (IF b > 0 THEN a \div b ELSE -(a \div (-b)))
    ELSE (IF b > 0 THEN -((-a) \div b) ELSE (-a) \div (-b))

\* remainder with the sign of the dividend
TruncRem(a, b) ==
    IF a >= 0
    THEN a % (IF b > 0 THEN b ELSE -b)
    ELSE -((-a) % (IF b > 0 THEN b ELSE -b))

\* `d as f32` for an integer d
AsF32(d) == d * Scale

FMul(a, b) ==
    IF IsFinite(a) /\ IsFinite(b) THEN TruncDiv(a * b, Scale) ELSE NaN

FAdd(a, b) ==
    IF IsFinite(a) /\ IsFinite(b) THEN a + b ELSE NaN

\* IEEE division: x/0 is an infinity, 0/0 is NaN; nothing is raised
FDiv(a, b) ==
    IF ~(IsFinite(a) /\ IsFinite(b)) THEN NaN
    ELSE IF b = 0 THEN (IF a = 0 THEN NaN ELSE IF a > 0 THEN PosInf ELSE NegInf)
    ELSE TruncDiv(a * Scale, b)

\* Rust's % on f32: the remainder has the sign of the dividend;
\* a non-finite dividend or a zero divisor gives NaN
FRem(a, m) ==
    IF ~(IsFinite(a) /\ IsFinite(m)) THEN NaN
    ELSE IF m = 0 THEN NaN
    ELSE TruncRem(a, m)

\* sin(10k degrees) * Scale, k = 0..9
SinTable == <<0, 174, 342, 500, 643, 766, 866, 940, 985, 1000>>

Sin(a) ==
    LET m == a % 360
    IN  IF m <= 90 THEN SinTable[(m \div 10) + 1]
        ELSE IF m <= 180 THEN SinTable[((180 - m) \div 10) + 1]
        ELSE IF m <= 270 THEN -SinTable[((m - 180) \div 10) + 1]
        ELSE -SinTable[((360 - m) \div 10) + 1]

Cos(a) == Sin(a + 90)

\* ------------------------------------------------- Vertex (vertex/mod.rs)
Stacks == 18
Sectors == 36

stack_step == PI \div Stacks
sector_step == (2 * PI) \div Sectors

MkVertex(p, c) == [position |-> p, color |-> c]

change_color(v, new_color) == [v EXCEPT !.color = new_color]

stack_angle_of(i) == (PI \div 2) - i * stack_step

xy_of(r, i) == FMul(FDiv(r, AsF32(10)), Cos(stack_angle_of(i)))

z_of(r, i) == FMul(FDiv(r, AsF32(10)), Sin(stack_angle_of(i)))

sector_angle_of(j) == j * sector_step

\* the vertex pushed by the inner loop body for sector j
PushVertex(xy, z, j) ==
    MkVertex(<<FMul(xy, Cos(sector_angle_of(j))),
               FMul(xy, Sin(sector_angle_of(j))),
               z>>,
             <<0, 0, 0>>)

\* `for i in 0..=18`, `for j in 0..=36`: loop continues while the index is in range
StackInRange(i) == i <= Stacks

\* mutant: the sector range written exclusive, `0..36`
SectorInRange_exclusive(j) == j < Sectors

SectorInRange(j) == j <= Sectors

\* the list the two loops build: row i holds the Sectors + 1 vertices of
\* stack i, pushed in ascending j
sphere_vertices(rad) ==
    [k \in 1..((Stacks + 1) * (Sectors + 1)) |->
        LET i == (k - 1) \div (Sectors + 1)
            j == (k - 1) % (Sectors + 1)
        IN  PushVertex(xy_of(rad, i), z_of(rad, i), j)]

\* `for i in 0..18`, `for _j in 0..36`
\* mutant: the stack range written inclusive, `0..=18`
IdxStackInRange_inclusive(i) == i <= Stacks

IdxStackInRange(i) == i < Stacks
IdxSectorInRange(j) == j < Sectors

K1Init(i) == i * 37

\* mutant: the row stride (# of sectors + 1) left out of k2
K2Init_no_stride(k1) == k1 + 1

K2Init(k1) == k1 + 37

NotFirstStack(i) == i /= 0

\* mutant: the last stack taken to be # of stacks instead of # of stacks - 1
NotLastStack_off_by_one(i) == i /= 18

NotLastStack(i) == i /= 17

\* the indices pushed by one pass of the inner loop body
PushIndices(i, k1, k2) ==
    (IF NotFirstStack(i) THEN <<k1, k2, k1 + 1>> ELSE <<>>)
    \o (IF NotLastStack(i) THEN <<k1 + 1, k2, k2 + 1>> ELSE <<>>)

RECURSIVE IndexRow(_, _, _, _)
IndexRow(i, j, k1, k2) ==
    IF IdxSectorInRange(j)
    THEN PushIndices(i, k1, k2) \o IndexRow(i, j + 1, k1 + 1, k2 + 1)
    ELSE <<>>

RECURSIVE IndexRows(_)
IndexRows(i) ==
    IF IdxStackInRange(i)
    THEN IndexRow(i, 0, K1Init(i), K2Init(K1Init(i))) \o IndexRows(i + 1)
    ELSE <<>>

sphere_indices == IndexRows(0)

\* ------------------------------------------------------- State (mod.rs)
\* frame.data[k], k counted from 0 as in the source
Data(frame, k) == frame.data[k + 1]

\* vertex.position[k], k counted from 0 as in the source
Pos(v, k) == v.position[k + 1]

F256 == AsF32(256)

\* the `colors` array State::input builds for one vertex
input_colors(v, frame) ==
    << FRem(FMul(Pos(v, 0), AsF32(Data(frame, 2))), F256),
       FAdd(Pos(v, 1), FRem(AsF32(Data(frame, 1)), F256)),
       FRem(FDiv(Pos(v, 2), AsF32(Data(frame, 0))), F256) >>

\* `Vertex::sphere_vertices(1.0)`, as called by State::new and State::input
unit_sphere == sphere_vertices(AsF32(1))

\* the vertices State::input uploads for a frame
input_vertices(frame) ==
    LET vs == unit_sphere
    IN  [k \in 1..Len(vs) |-> change_color(vs[k], input_colors(vs[k], frame))]

\* a swap chain built from a descriptor; id tells one build from another
create_swap_chain(desc, id) == [width |-> desc.width, height |-> desc.height, id |-> id]

\* view_proj as update_uniforms computes it.  Of its inputs only the camera's
\* aspect and the model rotation vary, so the matrix is named by those two.
update_uniforms(cam, rotation) == [aspect |-> cam.aspect, rotation |-> rotation]

NoFrame == [data |-> <<>>]

\* samples a decoded frame may carry in data[0], data[1], data[2]
Samples0 == {0, 8}
Samples1 == {10, -10}
Samples2 == {20, 3000}
Frames == {[data |-> <<a, b, c>>] : a \in Samples0, b \in Samples1, c \in Samples2}

\* frames offered while the event loop runs
LoopFrames == {[data |-> <<8, 10, 20>>], [data |-> <<0, -10, 3000>>]}

\* byte b (counted from 0) of bytemuck::cast_slice(buf) for a list of u32,
\* least significant byte first
ByteAt(buf, b) ==
    LET x == buf[(b \div 4) + 1]
        q == b % 4
    IN  IF q = 0 THEN x % 256
        ELSE IF q = 1 THEN (x \div 256) % 256
        ELSE IF q = 2 THEN (x \div 65536) % 256
        ELSE (x \div 16777216) % 256

\* bytes per index of a wgpu::IndexFormat
IndexSize(fmt) == IF fmt = "Uint16" THEN 2 ELSE 4

\* index k (counted from 0) an indexed draw reads from the bytes of buf when
\* the buffer is bound with format fmt
ReadIndex(buf, fmt, k) ==
    IF fmt = "Uint16"
    THEN ByteAt(buf, 2 * k) + 256 * ByteAt(buf, 2 * k + 1)
    ELSE ByteAt(buf, 4 * k) + 256 * ByteAt(buf, 4 * k + 1)
         + 65536 * ByteAt(buf, 4 * k + 2) + 16777216 * ByteAt(buf, 4 * k + 3)

\* an event given to the closure of event_loop.run; st and key are those of
\* a KeyboardInput, empty otherwise
Event(kind, st, key) == [kind |-> kind, st |-> st, key |-> key]

NoEvent == Event("", "", "")

\* one State method call made by a handler: resize(w, h); input(frame);
\* update(); render() with its result, the size of the swap chain it drew
\* to, the index range 0..n of its draw and the index format it bound
Call(op, w, h, res, n, fmt) ==
    [op |-> op, w |-> w, h |-> h, res |-> res, n |-> n, fmt |-> fmt]

\* ------------------------------------------------------------------ state
VARIABLES
    \* sphere_vertices, run step by step
    vpc, r, vi, vj, xy, z, vertices,
    \* sphere_indices, run step by step
    ipc, ii, ij, k1, k2, indices,
    \* State
    size, sc_desc, swap_chain, device, render_pipeline,
    vertex_buffer, index_buffer, num_indices,
    camera, model_rotation, uniforms, uniform_buffer,
    \* the event loop of main
    control_flow, redraw_requested,
    \* the audio thread of main: whether play() is still running, and the
    \* frame it decoded last
    audio, published,
    \* history: the frame last given to State::input, the State methods the
    \* latest handler called, the first frame ever given with the vertices it
    \* produced, and the frame given before the last
    frame, calls, ref_frame, ref_vertices, prev_frame,
    \* history: the event the latest handler was given, and the number of
    \* State::update calls made so far
    event, updates

genVertVars == <<vpc, r, vi, vj, xy, z, vertices>>
genIdxVars == <<ipc, ii, ij, k1, k2, indices>>
surfaceVars == <<size, sc_desc, swap_chain>>
gpuVars == <<device, render_pipeline>>
meshVars == <<vertex_buffer, index_buffer, num_indices>>
loopVars == <<control_flow, redraw_requested>>
audioVars == <<audio, published>>
refVars == <<ref_frame, ref_vertices, prev_frame>>
uniformVars == <<camera, model_rotation, uniforms, uniform_buffer>>
stateVars == <<surfaceVars, gpuVars, meshVars, uniformVars, loopVars, audioVars,
               frame, calls, refVars, event, updates>>
vars == <<genVertVars, genIdxVars, stateVars>>

Radii == {k * (Scale \div 2) : k \in 0..MaxRadiusHalves}

\* ------------------------------------------- sphere_vertices as a process
VertIdle ==
    /\ vpc = "idle" /\ r = 0 /\ vi = 0 /\ vj = 0 /\ xy = 0 /\ z = 0
    /\ vertices = <<>>

IdxIdle ==
    /\ ipc = "idle" /\ ii = 0 /\ ij = 0 /\ k1 = 0 /\ k2 = 0 /\ indices = <<>>

\* no State has been constructed
NoState ==
    /\ size = <<0, 0>>
    /\ sc_desc = [width |-> 0, height |-> 0]
    /\ swap_chain = [width |-> 0, height |-> 0, id |-> 0]
    /\ device = 0 /\ render_pipeline = 0
    /\ vertex_buffer = <<>> /\ index_buffer = <<>> /\ num_indices = 0
    /\ camera = [aspect |-> 0] /\ model_rotation = 0
    /\ uniforms = [aspect |-> 0, rotation |-> 0]
    /\ uniform_buffer = [aspect |-> 0, rotation |-> 0]
    /\ control_flow = "Exit" /\ redraw_requested = FALSE
    /\ frame = NoFrame /\ calls = <<>>
    /\ ref_frame = NoFrame /\ ref_vertices = <<>> /\ prev_frame = NoFrame
    /\ audio = "ended" /\ published = NoFrame
    /\ event = NoEvent /\ updates = 0

VertInit ==
    /\ vpc = "outer"
    /\ r \in Radii
    /\ vi = 0 /\ vj = 0 /\ xy = 0 /\ z = 0
    /\ vertices = <<>>
    /\ IdxIdle
    /\ NoState

\* head of `for i in 0..=18` and the two assignments before the inner loop
VertOuter ==
    /\ vpc = "outer"
    /\ StackInRange(vi)
    /\ xy' = xy_of(r, vi)
    /\ z' = z_of(r, vi)
    /\ vj' = 0
    /\ vpc' = "inner"
    /\ UNCHANGED <<r, vi, vertices, genIdxVars, stateVars>>

\* one pass of `for j in 0..=36`
VertInner ==
    /\ vpc = "inner"
    /\ SectorInRange(vj)
    /\ vertices' = Append(vertices, PushVertex(xy, z, vj))
    /\ vj' = vj + 1
    /\ UNCHANGED <<vpc, r, vi, xy, z, genIdxVars, stateVars>>

VertInnerExit ==
    /\ vpc = "inner"
    /\ ~SectorInRange(vj)
    /\ vi' = vi + 1
    /\ vpc' = "outer"
    /\ UNCHANGED <<r, vj, xy, z, vertices, genIdxVars, stateVars>>

VertReturn ==
    /\ vpc = "outer"
    /\ ~StackInRange(vi)
    /\ vpc' = "done"
    /\ UNCHANGED <<r, vi, vj, xy, z, vertices, genIdxVars, stateVars>>

VertNext ==
    \/ VertOuter
    \/ VertInner
    \/ VertInnerExit
    \/ VertReturn

SpecVert == VertInit /\ [][VertNext]_vars

\* -------------------------------------------- sphere_indices as a process
IdxInit ==
    /\ ipc = "outer" /\ ii = 0 /\ ij = 0 /\ k1 = 0 /\ k2 = 0 /\ indices = <<>>
    /\ VertIdle
    /\ NoState

IdxOuter ==
    /\ ipc = "outer"
    /\ IdxStackInRange(ii)
    /\ k1' = K1Init(ii)
    /\ k2' = K2Init(K1Init(ii))
    /\ ij' = 0
    /\ ipc' = "inner"
    /\ UNCHANGED <<ii, indices, genVertVars, stateVars>>

IdxInner ==
    /\ ipc = "inner"
    /\ IdxSectorInRange(ij)
    /\ indices' = indices \o PushIndices(ii, k1, k2)
    /\ k1' = k1 + 1
    /\ k2' = k2 + 1
    /\ ij' = ij + 1
    /\ UNCHANGED <<ipc, ii, genVertVars, stateVars>>

IdxInnerExit ==
    /\ ipc = "inner"
    /\ ~IdxSectorInRange(ij)
    /\ ii' = ii + 1
    /\ ipc' = "outer"
    /\ UNCHANGED <<ij, k1, k2, indices, genVertVars, stateVars>>

IdxReturn ==
    /\ ipc = "outer"
    /\ ~IdxStackInRange(ii)
    /\ ipc' = "done"
    /\ UNCHANGED <<ii, ij, k1, k2, indices, genVertVars, stateVars>>

IdxNext ==
    \/ IdxOuter
    \/ IdxInner
    \/ IdxInnerExit
    \/ IdxReturn

SpecIdx == IdxInit /\ [][IdxNext]_vars

\* ---------------------------------------------------------- State::new
\* the widths and heights a resize event may report: 0 (a minimised window),
\* the dimension the window was created with, and twice that
Dims == {0, MaxDim, 2 * MaxDim}

Init ==
    /\ VertIdle
    /\ IdxIdle
    /\ size = <<MaxDim, MaxDim>>
    /\ sc_desc = [width |-> size[1], height |-> size[2]]
    /\ swap_chain = create_swap_chain(sc_desc, 1)
    /\ device = 1
    /\ render_pipeline = 1
    /\ camera = [aspect |-> FDiv(AsF32(sc_desc.width), AsF32(sc_desc.height))]
    /\ model_rotation = 0
    /\ uniforms = update_uniforms(camera, 0)
    /\ uniform_buffer = uniforms
    /\ vertex_buffer = unit_sphere
    /\ index_buffer = sphere_indices
    /\ num_indices = Len(index_buffer)
    /\ control_flow = "Poll"
    /\ redraw_requested = FALSE
    /\ frame = NoFrame
    /\ calls = <<>>
    /\ ref_frame = NoFrame
    /\ ref_vertices = <<>>
    /\ prev_frame = NoFrame
    /\ audio = "playing"
    /\ published = NoFrame
    /\ event = NoEvent
    /\ updates = 0

\* ------------------------------------------------------- State's methods
\* mutant: only the width reaches the swap configuration
resize_width_only(w, h) ==
    /\ size' = <<w, h>>
    /\ sc_desc' = [sc_desc EXCEPT !.width = w]
    /\ swap_chain' = create_swap_chain(sc_desc', swap_chain.id + 1)

\* mutant: an early return when the size is the one already stored
resize_skip_unchanged(w, h) ==
    IF <<w, h>> = size
    THEN UNCHANGED surfaceVars
    ELSE /\ size' = <<w, h>>
         /\ sc_desc' = [sc_desc EXCEPT !.width = w, !.height = h]
         /\ swap_chain' = create_swap_chain(sc_desc', swap_chain.id + 1)

resize(w, h) ==
    /\ size' = <<w, h>>
    /\ sc_desc' = [sc_desc EXCEPT !.width = w, !.height = h]
    /\ swap_chain' = create_swap_chain(sc_desc', swap_chain.id + 1)

\* mutant: the stored vertices are recoloured in place, the new colour
\* added to the one they have
input_accumulate(f) ==
    /\ vertex_buffer' =
           [k \in 1..Len(vertex_buffer) |->
               LET v == vertex_buffer[k]
                   c == input_colors(v, f)
               IN  change_color(v, <<FAdd(v.color[1], c[1]),
                                     FAdd(v.color[2], c[2]),
                                     FAdd(v.color[3], c[3])>>)]
    /\ UNCHANGED <<index_buffer, num_indices>>

input(f) ==
    /\ vertex_buffer' = input_vertices(f)
    /\ UNCHANGED <<index_buffer, num_indices>>

\* mutant: the rotation assigned (`=`) where the code adds (`+=`)
update_assigns ==
    /\ model_rotation' = AsF32(2)
    /\ uniforms' = update_uniforms(camera, model_rotation')
    /\ uniform_buffer' = uniforms'
    /\ UNCHANGED camera

update ==
    /\ model_rotation' = FAdd(model_rotation, AsF32(2))
    /\ uniforms' = update_uniforms(camera, model_rotation')
    /\ uniform_buffer' = uniforms'
    /\ UNCHANGED camera

\* the results of get_current_frame()
RenderResults == {"Ok", "Lost", "OutOfMemory", "Outdated", "Timeout"}

\* render changes no field of State; on Ok it issues one indexed draw
render(res) ==
    IF res = "Ok"
    THEN Call("render", swap_chain.width, swap_chain.height, res, num_indices, "Uint16")
    ELSE Call("render", swap_chain.width, swap_chain.height, res, 0, "")

\* ------------------------------------------------------- the event loop
Running == control_flow /= "Exit"

\* the key a KeyboardInput carries: Some(Escape), Some(other key), None
KeyCodes == {"Escape", "Other", "None"}
ElementStates == {"Pressed", "Released"}

CloseRequested ==
    /\ Running
    /\ control_flow' = "Exit"
    /\ calls' = <<>>
    /\ event' = Event("CloseRequested", "", "")
    /\ UNCHANGED <<genVertVars, genIdxVars, surfaceVars, gpuVars, meshVars,
                   uniformVars, redraw_requested, audioVars, frame, refVars, updates>>

\* the match arm of KeyboardInput: Exit on a pressed Escape, nothing otherwise
\* mutant: the arm matches on the element state alone, any pressed key exits
ControlAfterKey_any_press(st, key) ==
    IF st = "Pressed" THEN "Exit" ELSE control_flow

ControlAfterKey(st, key) ==
    IF st = "Pressed" /\ key = "Escape" THEN "Exit" ELSE control_flow

KeyboardInput(st, key) ==
    /\ Running
    /\ control_flow' = ControlAfterKey(st, key)
    /\ calls' = <<>>
    /\ event' = Event("KeyboardInput", st, key)
    /\ UNCHANGED <<genVertVars, genIdxVars, surfaceVars, gpuVars, meshVars,
                   uniformVars, redraw_requested, audioVars, frame, refVars, updates>>

\* WindowEvent::Resized and WindowEvent::ScaleFactorChanged
Resized(w, h) ==
    /\ Running
    /\ swap_chain.id < MaxSwapChains
    /\ resize(w, h)
    /\ calls' = <<Call("resize", w, h, "", 0, "")>>
    /\ event' = Event("Resized", "", "")
    /\ UNCHANGED <<genVertVars, genIdxVars, gpuVars, meshVars, uniformVars,
                   loopVars, audioVars, frame, refVars, updates>>

\* the arms of `match state.render()`: which result makes the loop resize,
\* and what it leaves in control_flow
\* mutant: the Lost arm left out, so that Lost falls to the arm that
\* only prints the error
ResizesAfterRender_never(res) == FALSE

\* mutant: every error of render answered like Lost
ResizesAfterRender_any_error(res) == res /= "Ok"

ResizesAfterRender(res) == res = "Lost"

\* mutant: the OutOfMemory arm left out, so that OutOfMemory falls to the
\* arm that only prints the error
ControlAfterRender_never_exits(res) == control_flow

ControlAfterRender(res) == IF res = "OutOfMemory" THEN "Exit" ELSE control_flow

RedrawRequested(res) ==
    /\ Running
    /\ updates < MaxUpdates
    /\ ResizesAfterRender(res) => swap_chain.id < MaxSwapChains
    /\ update
    /\ updates' = updates + 1
    /\ IF ResizesAfterRender(res)
       THEN /\ resize(size[1], size[2])
            /\ calls' = <<Call("update", 0, 0, "", 0, ""), render(res),
                          Call("resize", size[1], size[2], "", 0, "")>>
       ELSE /\ UNCHANGED surfaceVars
            /\ calls' = <<Call("update", 0, 0, "", 0, ""), render(res)>>
    /\ control_flow' = ControlAfterRender(res)
    /\ redraw_requested' = FALSE
    /\ event' = Event("RedrawRequested", "", "")
    /\ UNCHANGED <<genVertVars, genIdxVars, gpuVars, meshVars, audioVars, frame, refVars>>

MainEventsCleared ==
    /\ Running
    /\ redraw_requested' = TRUE
    /\ calls' = <<>>
    /\ event' = Event("MainEventsCleared", "", "")
    /\ UNCHANGED <<genVertVars, genIdxVars, surfaceVars, gpuVars, meshVars,
                   uniformVars, control_flow, audioVars, frame, refVars, updates>>

\* State::input with a decoded frame
Input(f) ==
    /\ Running
    /\ input(f)
    /\ frame' = f
    /\ calls' = <<Call("input", 0, 0, "", 0, "")>>
    /\ event' = NoEvent
    /\ UNCHANGED <<genVertVars, genIdxVars, surfaceVars, gpuVars, uniformVars,
                   loopVars, audioVars, refVars, updates>>

Next ==
    \/ CloseRequested
    \/ \E st \in ElementStates, key \in KeyCodes : KeyboardInput(st, key)
    \/ \E w \in Dims, h \in Dims : Resized(w, h)
    \/ \E res \in RenderResults : RedrawRequested(res)
    \/ MainEventsCleared
    \/ \E f \in LoopFrames : Input(f)

Spec == Init /\ [][Next]_vars

\* ------------------------------------------- main with its audio thread
\* The thread spawned at the top of main calls play() and ends; it shares
\* nothing with the event loop, and no handler of the loop gives a frame to
\* State.  It runs for as long as the process does.

\* play() decodes and plays one more frame
AudioFrame(f) ==
    /\ Running
    /\ audio = "playing"
    /\ published' = f
    /\ UNCHANGED <<genVertVars, genIdxVars, surfaceVars, gpuVars, meshVars,
                   uniformVars, loopVars, audio, frame, calls, refVars, event, updates>>

\* play() reaches the end of the file and returns Ok; the thread sleeps
\* and ends
AudioEnd ==
    /\ Running
    /\ audio = "playing"
    /\ audio' = "ended"
    /\ UNCHANGED <<genVertVars, genIdxVars, surfaceVars, gpuVars, meshVars,
                   uniformVars, loopVars, published, frame, calls, refVars, event, updates>>

\* play() returns an error and unwrap() panics: the thread alone dies
AudioPanic ==
    /\ Running
    /\ audio = "playing"
    /\ audio' = "panicked"
    /\ UNCHANGED <<genVertVars, genIdxVars, surfaceVars, gpuVars, meshVars,
                   uniformVars, loopVars, published, frame, calls, refVars, event, updates>>

AudioNext ==
    \/ \E f \in LoopFrames : AudioFrame(f)
    \/ AudioEnd
    \/ AudioPanic
    \/ CloseRequested
    \/ \E st \in ElementStates, key \in KeyCodes : KeyboardInput(st, key)
    \/ \E w \in Dims, h \in Dims : Resized(w, h)
    \/ \E res \in RenderResults : RedrawRequested(res)
    \/ MainEventsCleared

SpecAudio == Init /\ [][AudioNext]_vars

\* --------------------------------- State::input called again and again,
\* remembering the first frame and the vertices it produced
ColorInit == Init /\ size = <<1, 1>>

InputRecorded(f) ==
    /\ input(f)
    /\ frame' = f
    /\ calls' = <<Call("input", 0, 0, "", 0, "")>>
    /\ prev_frame' = frame
    /\ IF ref_frame = NoFrame
       THEN ref_frame' = f /\ ref_vertices' = vertex_buffer'
       ELSE UNCHANGED <<ref_frame, ref_vertices>>
    /\ UNCHANGED <<genVertVars, genIdxVars, surfaceVars, gpuVars, uniformVars, loopVars,
                   audioVars, event, updates>>

ColorNext == \E f \in Frames : InputRecorded(f)

SpecColor == ColorInit /\ [][ColorNext]_vars

\* =================================================== claims: the generator
\* C1: sphere_vertices returns exactly (stacks+1)*(sectors+1) vertices, 703
\* for the built-in 18 stacks and 36 sectors, whatever the radius.
C1_VertexCount ==
    vpc = "done" =>
        /\ Len(vertices) = (Stacks + 1) * (Sectors + 1)
        /\ Len(vertices) = 703

C1_Witness == vpc = "done" /\ r = AsF32(2) /\ Len(vertices) > 0

\* C2: every index sphere_indices emits is strictly less than the number of
\* vertices sphere_vertices returns.
C2_IndicesInRange ==
    LET n == Len(unit_sphere)
    IN  \A k \in 1..Len(indices) : indices[k] >= 0 /\ indices[k] < n

C2_Witness ==
    /\ ipc = "done"
    /\ LET n == Len(unit_sphere)
       IN  \E k \in 1..Len(indices) : indices[k] = n - 2

\* the number of triangles emitted for the stacks before stack i
C3_TrianglesBefore(i) == IF i = 0 THEN 0 ELSE Sectors * (2 * i - 1)

C3_TrianglesAt(i) ==
    (IF i /= 0 THEN 1 ELSE 0) + (IF i /= Stacks - 1 THEN 1 ELSE 0)

C3_Slice(s, first) == <<s[first + 1], s[first + 2], s[first + 3]>>

\* C3: for i over [0, stacks) and within it j over [0, sectors), ascending,
\* with k1 = i*(sectors+1)+j and k2 = k1+(sectors+1), the list holds the
\* triangle (k1, k2, k1+1) exactly when i /= 0, followed by the triangle
\* (k1+1, k2, k2+1) exactly when i /= stacks-1, and nothing else.
C3_IndexSequence ==
    ipc = "done" =>
        /\ Len(indices) = 3 * C3_TrianglesBefore(Stacks - 1)
                          + 3 * Sectors * C3_TrianglesAt(Stacks - 1)
        /\ \A i \in 0..(Stacks - 1) : \A j \in 0..(Sectors - 1) :
            LET c1 == i * (Sectors + 1) + j
                c2 == c1 + (Sectors + 1)
                off == 3 * (C3_TrianglesBefore(i) + j * C3_TrianglesAt(i))
            IN  /\ (i /= 0) => C3_Slice(indices, off) = <<c1, c2, c1 + 1>>
                /\ (i /= Stacks - 1) =>
                       C3_Slice(indices, off + (IF i /= 0 THEN 3 ELSE 0))
                           = <<c1 + 1, c2, c2 + 1>>

C3_Witness == ipc = "done" /\ Len(indices) = 3672

\* C4: in every triangle (consecutive triple of the index list) the three
\* indices are pairwise distinct.
C4_TrianglesDistinct ==
    /\ Len(indices) % 3 = 0
    /\ \A t \in 0..((Len(indices) \div 3) - 1) :
        LET a == indices[3 * t + 1]
            b == indices[3 * t + 2]
            c == indices[3 * t + 3]
        IN  a /= b /\ b /= c /\ a /= c

C4_Witness == ipc = "done" /\ Len(indices) \div 3 = 1224

\* the position the claim gives the vertex of stack i and sector j
C5_Position(rad, i, j) ==
    LET sa == (PI \div 2) - i * (PI \div Stacks)
        ta == j * ((2 * PI) \div Sectors)
        cxy == FMul(rad, Cos(sa))
        cz == FMul(rad, Sin(sa))
    IN  <<FMul(cxy, Cos(ta)), FMul(cxy, Sin(ta)), cz>>

\* C5: the vertex at list position i*(sectors+1)+j has position
\* (xy*cos(sector_angle), xy*sin(sector_angle), z) with xy = r*cos(stack_angle)
\* and z = r*sin(stack_angle), and colour (0,0,0): r is the scale of the mesh.
C5_PositionsScaledByR ==
    vpc = "done" =>
        \A i \in 0..Stacks : \A j \in 0..Sectors :
            LET k == i * (Sectors + 1) + j + 1
            IN  /\ k <= Len(vertices)
                /\ vertices[k].position = C5_Position(r, i, j)
                /\ vertices[k].color = <<0, 0, 0>>

\* ==================================================== claims: recolouring
\* the non-negative mathematical remainder modulo 256
C6_Mod(a) == IF IsFinite(a) THEN a % F256 ELSE NaN

\* the colour the claim gives a vertex for a frame
C6_Colour(v, f) ==
    << C6_Mod(FMul(Pos(v, 0), AsF32(Data(f, 2)))),
       C6_Mod(FMul(Pos(v, 1), AsF32(Data(f, 1)))),
       C6_Mod(FDiv(Pos(v, 2), AsF32(Data(f, 0)))) >>

\* C6: recolouring with a frame gives every vertex the colour
\* (x*data[2] mod 256, y*data[1] mod 256, z/data[0] mod 256) of its own
\* position and that frame, mod being the non-negative remainder.
C6_ColourFormula ==
    (frame /= NoFrame /\ Data(frame, 0) /= 0) =>
        \A k \in 1..Len(vertex_buffer) :
            vertex_buffer[k].color = C6_Colour(vertex_buffer[k], frame)

\* C7: with data[0] = 0 recolouring completes and every vertex's blue
\* channel is exactly 0.0.
C7_ZeroSampleBlueIsZero ==
    (frame /= NoFrame /\ Data(frame, 0) = 0) =>
        \A k \in 1..Len(vertex_buffer) : vertex_buffer[k].color[3] = 0

\* C8: input with a frame gives the colours a single call with that frame
\* gives, whatever inputs came before, and leaves every position as generated.
C8_RecolourPure ==
    frame /= NoFrame =>
        LET vs == unit_sphere
        IN  /\ Len(vertex_buffer) = Len(vs)
            /\ \A k \in 1..Len(vs) : vertex_buffer[k].position = vs[k].position
            /\ frame = ref_frame => vertex_buffer = ref_vertices

C8_Witness ==
    /\ frame /= NoFrame
    /\ frame = ref_frame
    /\ prev_frame /= NoFrame
    /\ prev_frame /= frame
    /\ vertex_buffer = ref_vertices
    /\ \E k \in 1..Len(vertex_buffer) : vertex_buffer[k].color /= <<0, 0, 0>>

\* ========================================================= claims: resize
C9_LastCall(cs) == cs[Len(cs)]

C9_ProgramVarsButSurface == <<gpuVars, meshVars, uniformVars>>

\* C9: after resize(w,h) the stored size and the swap configuration's width
\* and height are (w,h), every render draws to a swap chain of the stored
\* size, the surface changes only in a resize, and resize leaves the
\* pipeline, the device, the buffers and the model rotation alone.
C9_ResizeSetsSurface ==
    [][ /\ (calls' /= <<>> /\ C9_LastCall(calls').op = "resize") =>
               LET c == C9_LastCall(calls')
               IN  /\ size' = <<c.w, c.h>>
                   /\ sc_desc'.width = c.w /\ sc_desc'.height = c.h
                   /\ swap_chain'.width = c.w /\ swap_chain'.height = c.h
        /\ (Len(calls') = 1 /\ calls'[1].op = "resize") =>
               UNCHANGED C9_ProgramVarsButSurface
        /\ \A k \in 1..Len(calls') :
               calls'[k].op = "render" =>
                   /\ <<calls'[k].w, calls'[k].h>> = size
                   /\ size = <<sc_desc.width, sc_desc.height>>
                   /\ size = <<swap_chain.width, swap_chain.height>>
        /\ (surfaceVars' /= surfaceVars) =>
               (calls' /= <<>> /\ C9_LastCall(calls').op = "resize")
      ]_vars

C9_Witness ==
    /\ swap_chain.id > 1
    /\ size /= <<1, 1>>
    /\ Len(calls) = 2
    /\ calls[2].op = "render" /\ calls[2].res = "Ok"
    /\ <<calls[2].w, calls[2].h>> = size

\* a handler whose last call is resize with the size already stored
C10_SameSizeResize ==
    /\ calls' /= <<>>
    /\ C9_LastCall(calls').op = "resize"
    /\ <<C9_LastCall(calls').w, C9_LastCall(calls').h>> = size

\* C10: resize(new_size) with new_size equal to the stored size is a no-op:
\* no state changes and the swap chain is not rebuilt.
C10_SameSizeIsNoOp ==
    [][ (C10_SameSizeResize /\ Len(calls') = 1) =>
            UNCHANGED <<surfaceVars, C9_ProgramVarsButSurface>> ]_vars

\* C10 as amended: resize with the stored size leaves the size, the swap
\* configuration and the rest of State as they are, but rebuilds the swap
\* chain: a new swap chain of the same dimensions replaces the old one.
C10_SameSizeRebuilds ==
    [][ C10_SameSizeResize =>
            /\ size' = size
            /\ sc_desc' = sc_desc
            /\ swap_chain'.id /= swap_chain.id
            /\ swap_chain'.width = swap_chain.width
            /\ swap_chain'.height = swap_chain.height
            /\ Len(calls') = 1 => UNCHANGED C9_ProgramVarsButSurface ]_vars

C10_Witness ==
    /\ swap_chain.id = 2
    /\ Len(calls) = 3
    /\ calls[2].op = "render" /\ calls[2].res = "Lost"
    /\ calls[3].op = "resize"
    /\ <<calls[3].w, calls[3].h>> = <<calls[2].w, calls[2].h>>
    /\ size = <<calls[3].w, calls[3].h>>

\* the calls of the latest handler hold a render that returned res
C11_Rendered(cs, res) ==
    \E k \in 1..Len(cs) : cs[k].op = "render" /\ cs[k].res = res

\* C11: when render returns Lost on a redraw tick, the call the handler
\* makes right after it is resize with the size stored at that moment, which
\* rebuilds the swap chain with the dimensions it had; the handler leaves
\* control_flow as it was, so the loop keeps running and later redraw ticks
\* render again.
C11_LostThenResize ==
    [][ \A k \in 1..Len(calls') :
            (calls'[k].op = "render" /\ calls'[k].res = "Lost") =>
                /\ k < Len(calls')
                /\ calls'[k + 1] = Call("resize", size[1], size[2], "", 0, "")
                /\ size' = size
                /\ sc_desc' = sc_desc
                /\ swap_chain'.id /= swap_chain.id
                /\ swap_chain'.width = swap_chain.width
                /\ swap_chain'.height = swap_chain.height
                /\ control_flow' = control_flow
                /\ control_flow' /= "Exit" ]_vars

\* the second redraw tick of a run lost the surface; the loop is still running
C11_Witness ==
    /\ C11_Rendered(calls, "Lost")
    /\ Len(calls) = 3
    /\ calls[3].op = "resize"
    /\ event.kind = "RedrawRequested"
    /\ control_flow /= "Exit"
    /\ updates = 2
    /\ swap_chain.id > 1

\* C12: when render returns OutOfMemory the handler of that tick leaves
\* control_flow at Exit, and from then on no handler runs: no State method is
\* called again, render included.
C12_OutOfMemoryExits ==
    [][ /\ C11_Rendered(calls', "OutOfMemory") => control_flow' = "Exit"
        /\ C11_Rendered(calls, "OutOfMemory") =>
               UNCHANGED <<calls, updates, event, control_flow>> ]_vars

C12_Witness ==
    /\ C11_Rendered(calls, "OutOfMemory")
    /\ control_flow = "Exit"
    /\ updates = 2

\* C13: a render that cannot acquire the next image returns its error
\* without having drawn or changed anything; when the error is Outdated or
\* Timeout the handler calls nothing after render and does not set Exit, so
\* the stored size, the swap configuration and swap chain, the device and
\* pipeline, the buffers and control_flow are what they were before the tick,
\* and the loop is still running for the next tick.
C13_ErrorLeavesState ==
    [][ \A k \in 1..Len(calls') :
            (calls'[k].op = "render" /\ calls'[k].res /= "Ok") =>
                /\ calls'[k].n = 0
                /\ calls'[k].fmt = ""
                /\ UNCHANGED <<gpuVars, meshVars>>
                /\ calls'[k].res \in {"Outdated", "Timeout"} =>
                       /\ k = Len(calls')
                       /\ UNCHANGED <<surfaceVars, control_flow>>
                       /\ control_flow' /= "Exit" ]_vars

\* the second redraw tick of a run got Outdated or Timeout from render
C13_Witness ==
    /\ \/ C11_Rendered(calls, "Outdated")
       \/ C11_Rendered(calls, "Timeout")
    /\ Len(calls) = 2
    /\ updates = 2
    /\ control_flow /= "Exit"

\* C14: once the audio source has reached end-of-stream, the redraw tick
\* that follows ends with control_flow at Exit, and no further frame is
\* decoded.
C14_EndOfStreamExits ==
    [][ /\ (audio = "ended" /\ updates' > updates) => control_flow' = "Exit"
        /\ audio = "ended" => published' = published ]_vars

\* C15: the handler of a window close request and the handler of a pressed
\* Escape leave control_flow at Exit; the handler of any other keyboard
\* event (another key, no key code, or a release, Escape's included) and the
\* handler of a resize leave control_flow as it was; and no step takes
\* control_flow from Exit to anything else.
C15_ExitOnCloseOrEscape ==
    [][ /\ event'.kind = "CloseRequested" => control_flow' = "Exit"
        /\ event' = Event("KeyboardInput", "Pressed", "Escape") =>
               control_flow' = "Exit"
        /\ ( /\ event'.kind = "KeyboardInput"
             /\ ~(event'.st = "Pressed" /\ event'.key = "Escape") ) =>
               control_flow' = control_flow
        /\ event'.kind = "Resized" => control_flow' = control_flow
        /\ control_flow = "Exit" => control_flow' = "Exit" ]_vars

\* Escape pressed after a resize that did not end the loop
C15_Witness ==
    /\ event = Event("KeyboardInput", "Pressed", "Escape")
    /\ control_flow = "Exit"
    /\ swap_chain.id > 1

\* C16: every redraw tick calls render, whether or not a frame has been
\* decoded; when the audio side has decoded frames, the one frame the tick
\* gives to State is the frame decoded last and the vertex buffer the tick
\* renders holds that frame's colours; when it has decoded none, the tick
\* keeps the colours it had.
C16_TickSeesLatestFrame ==
    [][ updates' > updates =>
            /\ \E k \in 1..Len(calls') : calls'[k].op = "render"
            /\ IF published /= NoFrame
               THEN /\ frame' = published
                    /\ vertex_buffer' = input_vertices(published)
               ELSE vertex_buffer' = vertex_buffer ]_vars

\* C17: a handler that calls render has called update exactly once, as its
\* first call, right before render; every update adds 2.0 degrees to the
\* model rotation, whatever the handlers before it did (a frame given to
\* input, a resize, a failed render), and nothing else changes the rotation:
\* after n updates it is 2n degrees, and it never decreases.
C17_RotationPerUpdate ==
    [][ /\ (\E k \in 1..Len(calls') : calls'[k].op = "render") =>
               /\ calls'[1].op = "update"
               /\ calls'[2].op = "render"
               /\ \A k \in 2..Len(calls') : calls'[k].op /= "update"
               /\ \A k \in 3..Len(calls') : calls'[k].op /= "render"
               /\ updates' = updates + 1
        /\ updates' = updates + 1 =>
               model_rotation' = FAdd(model_rotation, AsF32(2))
        /\ updates' = updates => model_rotation' = model_rotation
        /\ model_rotation' >= model_rotation
        /\ model_rotation' = AsF32(2 * updates') ]_vars

\* the second update of a run, made after a frame was given to input, after
\* a resize, and in a tick whose render failed
C17_Witness ==
    /\ updates = 2
    /\ model_rotation = AsF32(4)
    /\ frame /= NoFrame
    /\ swap_chain.id > 1
    /\ Len(calls) = 2
    /\ calls[2].op = "render" /\ calls[2].res = "Timeout"

\* C18: a handler that ends with resize(w, h) leaves the camera's aspect at
\* w / h, and the uniforms an update writes carry the aspect of the stored
\* size.
C18_AspectFollowsResize ==
    [][ /\ (calls' /= <<>> /\ C9_LastCall(calls').op = "resize") =>
               camera'.aspect = FDiv(AsF32(C9_LastCall(calls').w),
                                     AsF32(C9_LastCall(calls').h))
        /\ updates' > updates =>
               uniform_buffer'.aspect = FDiv(AsF32(size[1]), AsF32(size[2])) ]_vars

\* C19: a handler whose render succeeded made one render call, whose one
\* indexed draw has the range 0..(number of indices sphere_indices emits)
\* and reads the index buffer as unsigned 32-bit values, the width the
\* indices were uploaded at: index k of the draw is index k of
\* sphere_indices.
C19_DrawReadsGeneratedIndices ==
    LET idx == sphere_indices
    IN  \A j \in 1..Len(calls) :
            (calls[j].op = "render" /\ calls[j].res = "Ok") =>
                /\ \A m \in 1..Len(calls) : calls[m].op = "render" => m = j
                /\ calls[j].n = Len(idx)
                /\ IndexSize(calls[j].fmt) = 4
                /\ \A k \in 0..(calls[j].n - 1) :
                       ReadIndex(index_buffer, calls[j].fmt, k) = idx[k + 1]

\* C20: in every state of a constructed State the swap configuration and
\* the swap chain built from it have a width and a height above zero.
C20_SurfaceNeverEmpty ==
    device /= 0 =>
        /\ sc_desc.width > 0 /\ sc_desc.height > 0
        /\ swap_chain.width > 0 /\ swap_chain.height > 0
        /\ size[1] > 0 /\ size[2] > 0

====
